---- MODULE Spec2Model ----
(***************************************************************************)
(* Row-level authorization model of the Tea-and-Tales bookstore: the       *)
(* policies of the SQL migrations, the role resolver, the block policy,    *)
(* the registration trigger, and the client handlers that issue the        *)
(* statements.  Policies follow PostgreSQL row-level-security semantics:   *)
(* all policies are PERMISSIVE, so the policies that apply to a command    *)
(* are ORed; a policy expression admits a row only when it is true (SQL    *)
(* NULL does not admit); a FOR ALL policy without WITH CHECK uses its      *)
(* USING expression as the check of new rows.                              *)
(***************************************************************************)
EXTENDS Integers, FiniteSets, Sequences, TLC

\* ------------------------------------------------------------------ bounds
MaxUsers == 2
MaxBooks == 1
MaxOrders == 1
\* rows public.order_items can hold
MaxItems == 2
\* rows public.reviews can hold
MaxReviews == 2
\* largest quantity of a cart row
MaxQty == 2

\* --------------------------------------------------------------- constants
\* id of the seeded admin profile ('00000000-0000-0000-0000-000000000001')
AdminSeedId == 1
\* auth.uid() of a request that carries no JWT (SQL NULL)
NullUid == 0

Ids == 1..MaxUsers
\* public.categories holds one row at most, public.books MaxBooks rows
CatIds == {1}
BookIds == 1..MaxBooks
OrderIds == 1..MaxOrders
\* books.category_id of a book without category (SQL NULL)
NullCat == 0
Callers(users) == users \cup {NullUid}

\* CREATE TYPE public.user_role
user_role == {"customer", "admin"}
NullRole == "null"
\* CREATE TYPE public.order_status
order_status == {"pending", "confirmed", "shipped", "delivered", "cancelled"}
Descriptions == {"null", "novels"}
Phones == {"null", "555"}

\* ------------------------------------------------- SQL three-valued logic
T3 == "t"
F3 == "f"
N3 == "n"
Bool3(b) == IF b THEN T3 ELSE F3
Not3(a) == IF a = N3 THEN N3 ELSE IF a = T3 THEN F3 ELSE T3
Or3(a, b) == IF a = T3 \/ b = T3 THEN T3
             ELSE IF a = N3 \/ b = N3 THEN N3 ELSE F3
\* auth.uid() = <uuid column>
UidEq(uid, id) == IF uid = NullUid \/ id = NullUid THEN N3 ELSE Bool3(uid = id)
\* a policy expression admits the row only when it evaluates to true
Passes(a) == a = T3

\* authUsers  : ids of the rows of auth.users (each holds a JWT)
\* profiles   : public.profiles, a function from the ids that have a row
\* categories : public.categories, books : public.books
\* orders     : public.orders
\* last       : the latest request and what the database answered
\* order_items: public.order_items, reviews : public.reviews
\* tabs       : the review dialogs open in the browser, each at its step
\* cart_items : public.cart_items, keyed by its UNIQUE(user_id, book_id)
\* adders     : the AddToCartButton runs of the browser's tabs
\* sessionUser: useAuth().user, the user signed in to the browser
\* booksPage  : the state of the Books page and its requests in flight
\* adminPage  : the state of the Admin page and its role lookup in flight
VARIABLES authUsers, profiles, categories, books, orders, last,
          order_items, reviews, tabs, cart_items, adders, sessionUser,
          booksPage, adminPage

\* the two pages that only read
pages == <<booksPage, adminPage>>

\* the cart and the browser state around it
cartVars == <<cart_items, adders, sessionUser>>

\* the tables and the browser state that the registry, catalog and order
\* statements leave alone
others == <<order_items, reviews, tabs, cartVars, pages>>

vars == <<authUsers, profiles, categories, books, orders, last, others>>

\* the browser tabs in which one user can have the review dialog open
Tabs == {1, 2}
ClosedTab == [pc |-> "idle", user |-> NullUid, book |-> 0, toast |-> "none"]
\* the sort orders the Books page offers (two of its five)
SortOrders == {"title", "price_low"}
\* the Books page before it is mounted: selectedCategory 'all', no
\* categories and no books loaded, loading true, no request in flight
ClosedBooks == [open |-> FALSE, selectedCategory |-> NullCat,
                sortBy |-> "title", categories |-> {}, books |-> {}, loading |-> TRUE,
                catFetch |-> FALSE, bookFetches |-> {}]
\* the Admin page before it is mounted: userRole null, loading true
ClosedAdmin == [open |-> FALSE, user |-> NullUid, userRole |-> NullRole,
                loading |-> TRUE, lookup |-> FALSE, fetched |-> FALSE]
\* an AddToCartButton at rest: loading false, nothing read, no toast shown
IdleAdder == [pc |-> "idle", book |-> 0, existing |-> 0, toast |-> "none"]

\* A row of public.profiles (id is the key of the function)
ProfileRow == [role : user_role, is_blocked : BOOLEAN, phone : Phones]
CategoryRow == [description : Descriptions]
BookRow == [category_id : CatIds \cup {NullCat}]
OrderRow == [user_id : Ids, status : order_status]
OrderItemRow == [order_id : OrderIds, book_id : BookIds]
ReviewRow == [user_id : Ids, book_id : BookIds]
CartItemRow == [user_id : Ids, book_id : BookIds]

\* result of a statement: "ok" it took effect on the row; "norows" the row
\* was filtered out by the USING expressions (no error, zero rows);
\* "rls_error" a new row violated the WITH CHECK expressions;
\* "constraint" a key constraint rejected a row the policies admitted
Request(via, tbl, op, caller, row, arg, result) ==
  [via |-> via, tbl |-> tbl, op |-> op, caller |-> caller, row |-> row,
   arg |-> arg, result |-> result]

NoRequest == Request("none", "none", "none", NullUid, 0, 0, "none")

\* a resolver that forgets WHERE id = auth.uid()
get_current_user_role_AnyRow(uid) ==
  IF DOMAIN profiles = {} THEN NullRole
  ELSE profiles[CHOOSE i \in DOMAIN profiles : TRUE].role

\* ------------------------------------------------------------ role resolver
\* SELECT role::text FROM public.profiles WHERE id = auth.uid()
get_current_user_role(uid) ==
  IF uid \in DOMAIN profiles THEN profiles[uid].role ELSE NullRole

\* public.get_current_user_role() = 'admin'
RoleIsAdmin(uid) ==
  LET r == get_current_user_role(uid)
  IN  IF r = NullRole THEN N3 ELSE Bool3(r = "admin")

\* -------------------------------------------------------- profiles policies
\* "Users can view their own profile" FOR SELECT USING (auth.uid() = id)
UsersCanViewOwnProfile(uid, id) == UidEq(uid, id)

\* "Users can update their own profile" FOR UPDATE USING (auth.uid() = id)
UsersCanUpdateOwnProfile(uid, id) == UidEq(uid, id)

\* "Admins can view all profiles" FOR SELECT
\*   USING (public.get_current_user_role() = 'admin')
AdminsCanViewAllProfiles(uid) == RoleIsAdmin(uid)

\* the block policy without its administrator branch
BlockedUsersCannotAccessData_NoAdmin(uid, id, row) ==
  Or3(Not3(Bool3(row.is_blocked)), UidEq(uid, id))

\* "Blocked users cannot access data" FOR ALL
\*   USING (NOT is_blocked OR auth.uid() = id OR get_current_user_role() = 'admin')
BlockedUsersCannotAccessData(uid, id, row) ==
  Or3(Or3(Not3(Bool3(row.is_blocked)), UidEq(uid, id)), RoleIsAdmin(uid))

\* The policies of public.profiles that apply to each command, ORed
ProfilesSelectUsing(uid, id, row) ==
  \/ Passes(UsersCanViewOwnProfile(uid, id))
  \/ Passes(AdminsCanViewAllProfiles(uid))
  \/ Passes(BlockedUsersCannotAccessData(uid, id, row))

\* the block flag applied as a restriction on top of the owner's policy
ProfilesUpdateUsing_BlockRestricts(uid, id, row) ==
  Passes(UsersCanUpdateOwnProfile(uid, id)) /\ ~row.is_blocked

ProfilesUpdateUsing(uid, id, row) ==
  \/ Passes(UsersCanUpdateOwnProfile(uid, id))
  \/ Passes(BlockedUsersCannotAccessData(uid, id, row))

\* neither policy has WITH CHECK: the USING expressions check the new row
ProfilesUpdateCheck(uid, id, new) ==
  \/ Passes(UsersCanUpdateOwnProfile(uid, id))
  \/ Passes(BlockedUsersCannotAccessData(uid, id, new))

ProfilesInsertCheck(uid, id, new) ==
  Passes(BlockedUsersCannotAccessData(uid, id, new))

ProfilesDeleteUsing(uid, id, row) ==
  Passes(BlockedUsersCannotAccessData(uid, id, row))

\* ------------------------------------------------------ profiles statements
\* UPDATE public.profiles SET ... WHERE id = <id>, the row becoming new
UpdateProfileResult(uid, id, new) ==
  IF id \notin DOMAIN profiles THEN "norows"
  ELSE IF ~(ProfilesSelectUsing(uid, id, profiles[id])
            /\ ProfilesUpdateUsing(uid, id, profiles[id])) THEN "norows"
  ELSE IF ~(ProfilesUpdateCheck(uid, id, new)
            /\ ProfilesSelectUsing(uid, id, new)) THEN "rls_error"
  ELSE "ok"

UpdateProfile(via, uid, id, new) ==
  LET r == UpdateProfileResult(uid, id, new)
  IN  /\ profiles' = IF r = "ok" THEN [profiles EXCEPT ![id] = new]
                      ELSE profiles
      /\ last' = Request(via, "profiles", "update", uid, id, id, r)
      /\ UNCHANGED <<authUsers, categories, books, orders, others>>

\* the row a statement addresses, or the column defaults when there is none
ProfileDefaults == [role |-> "customer", is_blocked |-> FALSE, phone |-> "null"]
ProfileOf(id) == IF id \in DOMAIN profiles THEN profiles[id] ELSE ProfileDefaults

\* a request sent straight to the REST endpoint with the caller's JWT
RestUpdateProfile ==
  \E uid \in Callers(authUsers), id \in Ids, new \in ProfileRow :
    UpdateProfile("rest", uid, id, new)

\* a profile form that sends the whole row back
updateProfile_WholeRow ==
  \E uid \in authUsers, new \in ProfileRow :
    /\ uid \in DOMAIN profiles
    /\ UpdateProfile("updateProfile", uid, uid, new)

\* Profile.updateProfile: full_name, phone and address of the caller's row
updateProfile ==
  \E uid \in authUsers, phone \in Phones :
    /\ uid \in DOMAIN profiles
    /\ UpdateProfile("updateProfile", uid, uid,
                     [profiles[uid] EXCEPT !.phone = phone])

\* Admin.toggleUserBlock(userId, isBlocked): update({is_blocked: !isBlocked})
toggleUserBlock ==
  \E uid \in authUsers, userId \in Ids, isBlocked \in BOOLEAN :
    UpdateProfile("toggleUserBlock", uid, userId,
                  [ProfileOf(userId) EXCEPT !.is_blocked = ~isBlocked])

\* SELECT ... FROM public.profiles WHERE id = <id>
SelectProfile ==
  \E uid \in Callers(authUsers), id \in DOMAIN profiles :
    /\ last' = Request("rest", "profiles", "select", uid, id, id,
                       IF ProfilesSelectUsing(uid, id, profiles[id])
                       THEN "ok" ELSE "norows")
    /\ UNCHANGED <<authUsers, profiles, categories, books, orders, others>>

\* INSERT INTO public.profiles: the policy check, then the primary key and
\* the foreign key to auth.users
InsertProfileResult(uid, id, new) ==
  IF ~ProfilesInsertCheck(uid, id, new) THEN "rls_error"
  ELSE IF id \in DOMAIN profiles \/ id \notin authUsers THEN "constraint"
  ELSE "ok"

WithProfile(id, new) ==
  [i \in DOMAIN profiles \cup {id} |-> IF i = id THEN new ELSE profiles[i]]

InsertProfile ==
  \E uid \in Callers(authUsers), id \in Ids, new \in ProfileRow :
    LET r == InsertProfileResult(uid, id, new)
    IN  /\ profiles' = IF r = "ok" THEN WithProfile(id, new) ELSE profiles
        /\ last' = Request("rest", "profiles", "insert", uid, id, id, r)
        /\ UNCHANGED <<authUsers, categories, books, orders, others>>

\* DELETE FROM public.profiles WHERE id = <id>
DeleteProfileResult(uid, id) ==
  IF id \notin DOMAIN profiles THEN "norows"
  ELSE IF ~(ProfilesSelectUsing(uid, id, profiles[id])
            /\ ProfilesDeleteUsing(uid, id, profiles[id])) THEN "norows"
  ELSE "ok"

DeleteProfile ==
  \E uid \in Callers(authUsers), id \in Ids :
    LET r == DeleteProfileResult(uid, id)
    IN  /\ profiles' = IF r = "ok"
                        THEN [i \in DOMAIN profiles \ {id} |-> profiles[i]]
                        ELSE profiles
        /\ last' = Request("rest", "profiles", "delete", uid, id, id, r)
        /\ UNCHANGED <<authUsers, categories, books, orders, others>>

\* -------------------------------------------------------- registration hook
\* handle_new_user, fired AFTER INSERT ON auth.users: a plain INSERT of
\* (id, email, full_name); role and is_blocked take the column defaults.
\* A primary-key conflict raises and rolls the whole sign-up back.
handle_new_user_Skip(id) == profiles

handle_new_user(id) ==
  IF id \in DOMAIN profiles THEN profiles ELSE WithProfile(id, ProfileDefaults)

SignUp ==
  \E id \in Ids \ authUsers :
    LET conflict == id \in DOMAIN profiles
    IN  /\ authUsers' = IF conflict THEN authUsers ELSE authUsers \cup {id}
        /\ profiles' = handle_new_user(id)
        /\ last' = Request("signup", "auth.users", "insert", NullUid, id, id,
                           IF conflict THEN "constraint" ELSE "ok")
        /\ UNCHANGED <<categories, books, orders, others>>

\* the trigger function run once more for an identity that exists: the same
\* plain INSERT, which raises unique_violation when the row is there
RefireHook ==
  \E id \in authUsers :
    /\ profiles' = handle_new_user(id)
    /\ last' = Request("handle_new_user", "profiles", "insert", NullUid, id, id,
                       IF id \in DOMAIN profiles THEN "constraint" ELSE "ok")
    /\ UNCHANGED <<authUsers, categories, books, orders, others>>

\* ------------------------------------------------------- catalog policies
\* "Anyone can view categories" FOR SELECT USING (true)
AnyoneCanViewCategories == T3

\* "Admins can manage categories" FOR ALL
\*   USING (public.get_current_user_role() = 'admin')
AdminsCanManageCategories(uid) == RoleIsAdmin(uid)

\* "Anyone can view books" FOR SELECT USING (true)
AnyoneCanViewBooks == T3

\* the policy written for every signed-in caller instead of admins
AdminsCanManageBooks_AnySignedIn(uid) == Bool3(uid # NullUid)

\* "Admins can manage books" FOR ALL
\*   USING (public.get_current_user_role() = 'admin')
AdminsCanManageBooks(uid) == RoleIsAdmin(uid)

CategoriesSelectUsing(uid) ==
  Passes(AnyoneCanViewCategories) \/ Passes(AdminsCanManageCategories(uid))

\* INSERT (check), UPDATE (using and check) and DELETE (using): the FOR ALL
\* policy is the only one that applies
CategoriesWriteUsing(uid) == Passes(AdminsCanManageCategories(uid))

BooksSelectUsing(uid) ==
  Passes(AnyoneCanViewBooks) \/ Passes(AdminsCanManageBooks(uid))

BooksWriteUsing(uid) == Passes(AdminsCanManageBooks(uid))

\* ----------------------------------------------------- catalog statements
With(table, id, new) ==
  [i \in DOMAIN table \cup {id} |-> IF i = id THEN new ELSE table[i]]

Without(table, id) == [i \in DOMAIN table \ {id} |-> table[i]]

SelectCategory ==
  \E uid \in Callers(authUsers), id \in DOMAIN categories :
    /\ last' = Request("rest", "categories", "select", uid, id, 0,
                       IF CategoriesSelectUsing(uid) THEN "ok" ELSE "norows")
    /\ UNCHANGED <<authUsers, profiles, categories, books, orders, others>>

InsertCategory ==
  \E uid \in Callers(authUsers), id \in CatIds \ DOMAIN categories,
     new \in CategoryRow :
    LET r == IF CategoriesWriteUsing(uid) THEN "ok" ELSE "rls_error"
    IN  /\ categories' = IF r = "ok" THEN With(categories, id, new)
                          ELSE categories
        /\ last' = Request("rest", "categories", "insert", uid, id, 0, r)
        /\ UNCHANGED <<authUsers, profiles, books, orders, others>>

UpdateCategory ==
  \E uid \in Callers(authUsers), id \in DOMAIN categories, new \in CategoryRow :
    LET r == IF ~(CategoriesSelectUsing(uid) /\ CategoriesWriteUsing(uid))
             THEN "norows"
             ELSE IF ~CategoriesWriteUsing(uid) THEN "rls_error" ELSE "ok"
    IN  /\ categories' = IF r = "ok" THEN [categories EXCEPT ![id] = new]
                          ELSE categories
        /\ last' = Request("rest", "categories", "update", uid, id, 0, r)
        /\ UNCHANGED <<authUsers, profiles, books, orders, others>>

\* books.category_id REFERENCES public.categories(id), without cascade
DeleteCategory ==
  \E uid \in Callers(authUsers), id \in DOMAIN categories :
    LET r == IF ~(CategoriesSelectUsing(uid) /\ CategoriesWriteUsing(uid))
             THEN "norows"
             ELSE IF \E b \in DOMAIN books : books[b].category_id = id
             THEN "constraint" ELSE "ok"
    IN  /\ categories' = IF r = "ok" THEN Without(categories, id)
                          ELSE categories
        /\ last' = Request("rest", "categories", "delete", uid, id, 0, r)
        /\ UNCHANGED <<authUsers, profiles, books, orders, others>>

CategoryKeyOk(new) ==
  new.category_id = NullCat \/ new.category_id \in DOMAIN categories

SelectBook ==
  \E uid \in Callers(authUsers), id \in DOMAIN books :
    /\ last' = Request("rest", "books", "select", uid, id, 0,
                       IF BooksSelectUsing(uid) THEN "ok" ELSE "norows")
    /\ UNCHANGED <<authUsers, profiles, categories, books, orders, others>>

InsertBook ==
  \E uid \in Callers(authUsers), id \in BookIds \ DOMAIN books, new \in BookRow :
    LET r == IF ~BooksWriteUsing(uid) THEN "rls_error"
             ELSE IF ~CategoryKeyOk(new) THEN "constraint" ELSE "ok"
    IN  /\ books' = IF r = "ok" THEN With(books, id, new) ELSE books
        /\ last' = Request("rest", "books", "insert", uid, id, 0, r)
        /\ UNCHANGED <<authUsers, profiles, categories, orders, others>>

UpdateBook ==
  \E uid \in Callers(authUsers), id \in DOMAIN books, new \in BookRow :
    LET r == IF ~(BooksSelectUsing(uid) /\ BooksWriteUsing(uid)) THEN "norows"
             ELSE IF ~BooksWriteUsing(uid) THEN "rls_error"
             ELSE IF ~CategoryKeyOk(new) THEN "constraint" ELSE "ok"
    IN  /\ books' = IF r = "ok" THEN [books EXCEPT ![id] = new] ELSE books
        /\ last' = Request("rest", "books", "update", uid, id, 0, r)
        /\ UNCHANGED <<authUsers, profiles, categories, orders, others>>

\* DELETE FROM public.books WHERE id = <id>: order_items.book_id REFERENCES
\* books with no ON DELETE action, so a book an order item names cannot go;
\* cart_items and reviews of the book go with it (ON DELETE CASCADE)
DeleteBook ==
  \E uid \in Callers(authUsers), id \in DOMAIN books :
    LET r == IF ~(BooksSelectUsing(uid) /\ BooksWriteUsing(uid)) THEN "norows"
             ELSE IF \E i \in DOMAIN order_items : order_items[i].book_id = id
             THEN "constraint"
             ELSE "ok"
        keptCart == {k \in DOMAIN cart_items : k.book_id # id}
        keptReviews == {k \in DOMAIN reviews : reviews[k].book_id # id}
    IN  /\ books' = IF r = "ok" THEN Without(books, id) ELSE books
        /\ cart_items' = IF r = "ok" THEN [k \in keptCart |-> cart_items[k]]
                         ELSE cart_items
        /\ reviews' = IF r = "ok" THEN [k \in keptReviews |-> reviews[k]]
                      ELSE reviews
        /\ last' = Request("rest", "books", "delete", uid, id, 0, r)
        /\ UNCHANGED <<authUsers, profiles, categories, orders, order_items,
                       tabs, adders, sessionUser, pages>>

\* --------------------------------------------------------- orders policies
\* the read policy written for every signed-in caller
UsersCanViewOwnOrders_AnySignedIn(uid, row) == Bool3(uid # NullUid)

\* "Users can view their own orders" FOR SELECT USING (auth.uid() = user_id)
UsersCanViewOwnOrders(uid, row) == UidEq(uid, row.user_id)

\* the insert check with an administrator branch added
UsersCanCreateOwnOrders_OrAdmin(uid, new) ==
  Or3(UidEq(uid, new.user_id), RoleIsAdmin(uid))

\* "Users can create their own orders" FOR INSERT
\*   WITH CHECK (auth.uid() = user_id)
UsersCanCreateOwnOrders(uid, new) == UidEq(uid, new.user_id)

\* "Admins can view all orders" FOR SELECT
\*   USING (public.get_current_user_role() = 'admin')
AdminsCanViewAllOrders(uid) == RoleIsAdmin(uid)

AdminsCanUpdateOrders_AnySignedIn(uid) == IF uid = NullUid THEN N3 ELSE T3

\* "Admins can update orders" FOR UPDATE
\*   USING (public.get_current_user_role() = 'admin')
AdminsCanUpdateOrders(uid) == RoleIsAdmin(uid)

OrdersSelectUsing(uid, row) ==
  Passes(UsersCanViewOwnOrders(uid, row)) \/ Passes(AdminsCanViewAllOrders(uid))

OrdersInsertCheck(uid, new) == Passes(UsersCanCreateOwnOrders(uid, new))

OrdersUpdateUsing(uid) == Passes(AdminsCanUpdateOrders(uid))

\* no policy of public.orders applies to DELETE
OrdersDeleteUsing(uid, row) == FALSE

\* ------------------------------------------------------- orders statements
SelectOrder ==
  \E uid \in Callers(authUsers), id \in DOMAIN orders :
    /\ last' = Request("rest", "orders", "select", uid, id, 0,
                       IF OrdersSelectUsing(uid, orders[id])
                       THEN "ok" ELSE "norows")
    /\ UNCHANGED <<authUsers, profiles, categories, books, orders, others>>

\* INSERT INTO public.orders: the policy check on the new row, then the
\* foreign key user_id REFERENCES auth.users(id); gen_random_uuid() gives
\* the new row the next unused id
InsertOrderResult(uid, new) ==
  IF ~OrdersInsertCheck(uid, new) THEN "rls_error"
  ELSE IF new.user_id \notin authUsers THEN "constraint"
  ELSE "ok"

InsertOrder(via, uid, new) ==
  LET id == Cardinality(DOMAIN orders) + 1
      r == InsertOrderResult(uid, new)
  IN  /\ id \in OrderIds
      /\ orders' = IF r = "ok" THEN With(orders, id, new) ELSE orders
      /\ last' = Request(via, "orders", "insert", uid, id, new.user_id, r)
      /\ UNCHANGED <<authUsers, profiles, categories, books, others>>

RestInsertOrder ==
  \E uid \in Callers(authUsers), new \in OrderRow : InsertOrder("rest", uid, new)

\* CheckoutDialog.handlePlaceOrder, its insert into orders:
\* insert({user_id: user.id, ..., status: "confirmed"})
handlePlaceOrder ==
  \E uid \in authUsers :
    InsertOrder("handlePlaceOrder", uid, [user_id |-> uid, status |-> "confirmed"])

\* an update that treats delivered and cancelled as final
UpdateOrderResult_TerminalFinal(uid, id, new) ==
  IF id \notin DOMAIN orders THEN "norows"
  ELSE IF ~(OrdersSelectUsing(uid, orders[id]) /\ OrdersUpdateUsing(uid))
  THEN "norows"
  ELSE IF orders[id].status \in {"delivered", "cancelled"}
          /\ new.status # orders[id].status
  THEN "constraint"
  ELSE "ok"

\* UPDATE public.orders SET ... WHERE id = <id>
UpdateOrderResult(uid, id, new) ==
  IF id \notin DOMAIN orders THEN "norows"
  ELSE IF ~(OrdersSelectUsing(uid, orders[id]) /\ OrdersUpdateUsing(uid))
  THEN "norows"
  ELSE IF ~(OrdersUpdateUsing(uid) /\ OrdersSelectUsing(uid, new))
  THEN "rls_error"
  ELSE IF new.user_id \notin authUsers THEN "constraint"
  ELSE "ok"

UpdateOrder(via, uid, id, new) ==
  LET r == UpdateOrderResult(uid, id, new)
  IN  /\ orders' = IF r = "ok" THEN [orders EXCEPT ![id] = new] ELSE orders
      /\ last' = Request(via, "orders", "update", uid, id, 0, r)
      /\ UNCHANGED <<authUsers, profiles, categories, books, others>>

\* a request that sets one column, status or user_id
RestUpdateOrder ==
  \E uid \in Callers(authUsers), id \in DOMAIN orders :
    \/ \E s \in order_status :
         UpdateOrder("rest", uid, id, [orders[id] EXCEPT !.status = s])
    \/ \E u \in Ids :
         UpdateOrder("rest", uid, id, [orders[id] EXCEPT !.user_id = u])

\* an admin page that offers every status
updateOrderStatus_AnyStatus ==
  \E uid \in authUsers, orderId \in DOMAIN orders, newStatus \in order_status :
    UpdateOrder("updateOrderStatus", uid, orderId,
                [orders[orderId] EXCEPT !.status = newStatus])

\* Admin.updateOrderStatus(order.id, 'delivered'): update({status: newStatus})
updateOrderStatus ==
  \E uid \in authUsers, orderId \in DOMAIN orders :
    UpdateOrder("updateOrderStatus", uid, orderId,
                [orders[orderId] EXCEPT !.status = "delivered"])

\* the branch the admin page's handlers take on the answer: supabase-js
\* sets error when the statement raised, and leaves it null when the
\* statement ran and matched no row
toast(req) ==
  IF req.result \in {"rls_error", "constraint"} THEN "error" ELSE "success"

DeleteOrder ==
  \E uid \in Callers(authUsers), id \in DOMAIN orders :
    LET r == IF OrdersSelectUsing(uid, orders[id])
                /\ OrdersDeleteUsing(uid, orders[id])
             THEN "ok" ELSE "norows"
    IN  /\ orders' = IF r = "ok" THEN Without(orders, id) ELSE orders
        /\ last' = Request("rest", "orders", "delete", uid, id, 0, r)
        /\ UNCHANGED <<authUsers, profiles, categories, books, others>>

\* ---------------------------------------------------------- order items
\* "Users can view their own order items" FOR SELECT USING (EXISTS (SELECT 1
\* FROM public.orders WHERE id = order_id AND user_id = auth.uid())); the
\* subquery reads public.orders under the caller's own SELECT policies
UsersCanViewOwnOrderItems(uid, row) ==
  Bool3(\E o \in DOMAIN orders :
          /\ OrdersSelectUsing(uid, orders[o])
          /\ o = row.order_id
          /\ Passes(UidEq(uid, orders[o].user_id)))

UsersCanCreateOrderItems_OrAdmin(uid, new) ==
  Or3(UsersCanViewOwnOrderItems(uid, new), RoleIsAdmin(uid))

\* "Users can create order items for their orders" FOR INSERT WITH CHECK
\* (EXISTS (... WHERE id = order_id AND user_id = auth.uid()))
UsersCanCreateOrderItems(uid, new) ==
  Bool3(\E o \in DOMAIN orders :
          /\ OrdersSelectUsing(uid, orders[o])
          /\ o = new.order_id
          /\ Passes(UidEq(uid, orders[o].user_id)))

\* "Admins can view all order items" FOR SELECT
\* USING (public.get_current_user_role() = 'admin')
AdminsCanViewAllOrderItems(uid) == RoleIsAdmin(uid)

OrderItemsSelectUsing(uid, row) ==
  \/ Passes(UsersCanViewOwnOrderItems(uid, row))
  \/ Passes(AdminsCanViewAllOrderItems(uid))

OrderItemsInsertCheck(uid, new) == Passes(UsersCanCreateOrderItems(uid, new))

SelectOrderItem ==
  \E uid \in Callers(authUsers), id \in DOMAIN order_items :
    /\ last' = Request("rest", "order_items", "select", uid, id,
                       order_items[id].order_id,
                       IF OrderItemsSelectUsing(uid, order_items[id])
                       THEN "ok" ELSE "norows")
    /\ UNCHANGED <<authUsers, profiles, categories, books, orders, others>>

\* the policy check comes before the foreign keys to orders and books
InsertOrderItemResult(uid, new) ==
  IF ~OrderItemsInsertCheck(uid, new) THEN "rls_error"
  ELSE IF new.order_id \notin DOMAIN orders \/ new.book_id \notin DOMAIN books
  THEN "constraint"
  ELSE "ok"

InsertOrderItem(via, uid, new) ==
  LET id == Cardinality(DOMAIN order_items) + 1
      r == InsertOrderItemResult(uid, new)
  IN  /\ id <= MaxItems
      /\ order_items' = IF r = "ok" THEN With(order_items, id, new)
                        ELSE order_items
      /\ last' = Request(via, "order_items", "insert", uid, id, new.order_id, r)
      /\ UNCHANGED <<authUsers, profiles, categories, books, orders,
                     reviews, tabs, cartVars, pages>>

OrderItemsUpdateUsing_Admin(uid, row) == Passes(AdminsCanViewAllOrderItems(uid))

\* no policy of public.order_items applies to UPDATE, none to DELETE
OrderItemsUpdateUsing(uid, row) == FALSE
OrderItemsDeleteUsing(uid, row) == FALSE

\* UPDATE public.order_items SET book_id = <b> WHERE id = <id>
RestUpdateOrderItem ==
  \E uid \in Callers(authUsers), id \in DOMAIN order_items, b \in BookIds :
    LET r == IF OrderItemsSelectUsing(uid, order_items[id])
                /\ OrderItemsUpdateUsing(uid, order_items[id])
             THEN (IF b \in DOMAIN books THEN "ok" ELSE "constraint")
             ELSE "norows"
    IN  /\ order_items' = IF r = "ok"
                          THEN [order_items EXCEPT ![id].book_id = b]
                          ELSE order_items
        /\ last' = Request("rest", "order_items", "update", uid, id,
                           order_items[id].order_id, r)
        /\ UNCHANGED <<authUsers, profiles, categories, books, orders,
                       reviews, tabs, cartVars, pages>>

\* DELETE FROM public.order_items WHERE id = <id>
RestDeleteOrderItem ==
  \E uid \in Callers(authUsers), id \in DOMAIN order_items :
    LET r == IF OrderItemsSelectUsing(uid, order_items[id])
                /\ OrderItemsDeleteUsing(uid, order_items[id])
             THEN "ok" ELSE "norows"
    IN  /\ order_items' = IF r = "ok" THEN Without(order_items, id)
                          ELSE order_items
        /\ last' = Request("rest", "order_items", "delete", uid, id,
                           order_items[id].order_id, r)
        /\ UNCHANGED <<authUsers, profiles, categories, books, orders,
                       reviews, tabs, cartVars, pages>>

RestInsertOrderItem ==
  \E uid \in Callers(authUsers), new \in OrderItemRow :
    InsertOrderItem("rest", uid, new)

\* CheckoutDialog.handlePlaceOrder, its next statement once the order came
\* back: insert({order_id: orderData.id, book_id: item.books.id, ...})
handlePlaceOrderItems ==
  /\ last.via = "handlePlaceOrder" /\ last.tbl = "orders"
  /\ last.result = "ok"
  /\ \E b \in BookIds :
       InsertOrderItem("handlePlaceOrder", last.caller,
                       [order_id |-> last.row, book_id |-> b])

\* ------------------------------------------------------------- cart items
\* the cart policy shut for a caller whose own row is blocked
UsersCanManageOwnCart_UnlessBlocked(uid, row) ==
  IF uid \in DOMAIN profiles /\ profiles[uid].is_blocked THEN F3
  ELSE UidEq(uid, row.user_id)

\* "Users can manage their own cart" FOR ALL USING (auth.uid() = user_id)
UsersCanManageOwnCart(uid, row) == UidEq(uid, row.user_id)

\* SELECT, INSERT (check), UPDATE and DELETE of public.cart_items
CartItemsUsing(uid, row) == Passes(UsersCanManageOwnCart(uid, row))

\* quantity of the cart row of a (user, book) pair, 0 when there is none
Quantity(cart, key) == IF key \in DOMAIN cart THEN cart[key] ELSE 0

\* INSERT INTO public.cart_items: the policy check, then the foreign keys,
\* then UNIQUE(user_id, book_id)
InsertCartItemResult(uid, new) ==
  IF ~CartItemsUsing(uid, new) THEN "rls_error"
  ELSE IF new.user_id \notin authUsers \/ new.book_id \notin DOMAIN books
  THEN "constraint"
  ELSE IF new \in DOMAIN cart_items THEN "constraint"
  ELSE "ok"

\* AddToCartButton.handleAddToCart up to the answer of its select of
\* (id, quantity) for the signed-in user and the book
handleAddToCart(t) ==
  /\ adders[t].pc = "idle"
  /\ sessionUser # NullUid
  /\ \E bookId \in DOMAIN books :
       LET key == [user_id |-> sessionUser, book_id |-> bookId]
           existing == IF key \in DOMAIN cart_items
                          /\ CartItemsUsing(sessionUser, key)
                       THEN cart_items[key] ELSE 0
       IN  adders' = [adders EXCEPT ![t] =
                        [pc |-> IF existing # 0 THEN "update" ELSE "insert",
                         book |-> bookId, existing |-> existing,
                         toast |-> "none"]]
  /\ UNCHANGED <<authUsers, profiles, categories, books, orders, last,
                 order_items, reviews, tabs, cart_items, sessionUser, pages>>

\* handleAddToCart, existing found: update({quantity: existing.quantity + 1})
\* of that row; an update that matches no row sets no error
handleAddToCartUpdate(t) ==
  LET key == [user_id |-> sessionUser, book_id |-> adders[t].book]
      hit == key \in DOMAIN cart_items /\ CartItemsUsing(sessionUser, key)
  IN  /\ adders[t].pc = "update"
      /\ adders[t].existing < MaxQty
      /\ cart_items' = IF hit
                        THEN [cart_items EXCEPT ![key] = adders[t].existing + 1]
                        ELSE cart_items
      /\ adders' = [adders EXCEPT ![t].pc = "idle", ![t].toast = "success"]
      /\ UNCHANGED <<authUsers, profiles, categories, books, orders, last,
                     order_items, reviews, tabs, sessionUser, pages>>

\* handleAddToCart, nothing found: insert({user_id, book_id, quantity: 1})
handleAddToCartInsert(t) ==
  LET key == [user_id |-> sessionUser, book_id |-> adders[t].book]
      r == InsertCartItemResult(sessionUser, key)
  IN  /\ adders[t].pc = "insert"
      /\ cart_items' = IF r = "ok" THEN With(cart_items, key, 1) ELSE cart_items
      /\ adders' = [adders EXCEPT ![t].pc = "idle",
                                  ![t].toast = IF r = "ok" THEN "success"
                                               ELSE "failure"]
      /\ UNCHANGED <<authUsers, profiles, categories, books, orders, last,
                     order_items, reviews, tabs, sessionUser, pages>>

\* the book page's addToCart: upsert({user_id, book_id, quantity: 1}) with
\* no onConflict, so the conflict target is the primary key id, which the
\* row does not carry; a pair already in the cart violates the UNIQUE
addToCart ==
  /\ sessionUser # NullUid
  /\ \E bookId \in DOMAIN books :
       LET key == [user_id |-> sessionUser, book_id |-> bookId]
           r == InsertCartItemResult(sessionUser, key)
       IN  /\ cart_items' = IF r = "ok" THEN With(cart_items, key, 1)
                             ELSE cart_items
           /\ last' = Request("addToCart", "cart_items", "upsert", sessionUser,
                              bookId, bookId, r)
  /\ UNCHANGED <<authUsers, profiles, categories, books, orders,
                 order_items, reviews, tabs, adders, sessionUser, pages>>

\* handlePlaceOrder, its last statement once the items went in:
\* delete().eq("user_id", user.id) on cart_items
handlePlaceOrderClear ==
  LET kept == {k \in DOMAIN cart_items :
                 ~(k.user_id = last.caller /\ CartItemsUsing(last.caller, k))}
  IN  /\ last.via = "handlePlaceOrder" /\ last.tbl = "order_items"
      /\ last.result = "ok"
      /\ cart_items' = [k \in kept |-> cart_items[k]]
      /\ last' = Request("handlePlaceOrder", "cart_items", "delete",
                         last.caller, last.arg, last.arg, "ok")
      /\ UNCHANGED <<authUsers, profiles, categories, books, orders,
                     order_items, reviews, tabs, adders, sessionUser, pages>>

\* ---------------------------------------------------------------- reviews
\* "Anyone can view reviews" FOR SELECT USING (true)
AnyoneCanViewReviews == T3

\* "Users can manage their own reviews" FOR ALL USING (auth.uid() = user_id)
UsersCanManageOwnReviews(uid, row) == UidEq(uid, row.user_id)

ReviewsSelectUsing(uid, row) ==
  Passes(AnyoneCanViewReviews) \/ Passes(UsersCanManageOwnReviews(uid, row))

ReviewsWriteUsing(uid, row) == Passes(UsersCanManageOwnReviews(uid, row))

ReviewsUnique_None(new) == TRUE

\* UNIQUE(user_id, book_id) of public.reviews
ReviewsUnique(new) ==
  ~\E r \in DOMAIN reviews :
     reviews[r].user_id = new.user_id /\ reviews[r].book_id = new.book_id

InsertReviewResult(uid, new) ==
  IF ~ReviewsWriteUsing(uid, new) THEN "rls_error"
  ELSE IF new.user_id \notin authUsers \/ new.book_id \notin DOMAIN books
  THEN "constraint"
  ELSE IF ~ReviewsUnique(new) THEN "constraint"
  ELSE "ok"

\* the table after INSERT INTO public.reviews answered r
ReviewsAfterInsert(new, r) ==
  IF r = "ok"
  THEN With(reviews, CHOOSE i \in 1..MaxReviews : i \notin DOMAIN reviews, new)
  ELSE reviews

RestInsertReview ==
  \E uid \in Callers(authUsers), new \in ReviewRow :
    /\ Cardinality(DOMAIN reviews) < MaxReviews
    /\ reviews' = ReviewsAfterInsert(new, InsertReviewResult(uid, new))
    /\ UNCHANGED <<authUsers, profiles, categories, books, orders, last,
                   order_items, tabs, cartVars, pages>>

RestDeleteReview ==
  \E uid \in Callers(authUsers), id \in DOMAIN reviews :
    /\ reviews' = IF ReviewsSelectUsing(uid, reviews[id])
                     /\ ReviewsWriteUsing(uid, reviews[id])
                  THEN Without(reviews, id) ELSE reviews
    /\ UNCHANGED <<authUsers, profiles, categories, books, orders, last,
                   order_items, tabs, cartVars, pages>>

\* ReviewDialog.handleSubmitReview with a rating chosen, up to the answer of
\* its select: "You have already reviewed this book" when a review came back
handleSubmitReview(t) ==
  /\ tabs[t].pc = "idle"
  /\ \E user \in authUsers, bookId \in DOMAIN books :
       LET existingReview ==
             \E r \in DOMAIN reviews :
               /\ ReviewsSelectUsing(user, reviews[r])
               /\ reviews[r].book_id = bookId
               /\ reviews[r].user_id = user
       IN  tabs' = [tabs EXCEPT ![t] =
                      [pc |-> IF existingReview THEN "idle" ELSE "insert",
                       user |-> user, book |-> bookId,
                       toast |-> IF existingReview THEN "already" ELSE "none"]]
  /\ UNCHANGED <<authUsers, profiles, categories, books, orders, last,
                 order_items, reviews, cartVars, pages>>

\* ReviewDialog.handleSubmitReview from its insert on: "Failed to submit
\* review" on error, onReviewSubmitted() otherwise
handleSubmitReviewInsert(t) ==
  LET new == [user_id |-> tabs[t].user, book_id |-> tabs[t].book]
      r == InsertReviewResult(tabs[t].user, new)
  IN  /\ tabs[t].pc = "insert"
      /\ r = "ok" => Cardinality(DOMAIN reviews) < MaxReviews
      /\ reviews' = ReviewsAfterInsert(new, r)
      /\ tabs' = [tabs EXCEPT ![t].pc = "idle",
                              ![t].toast = IF r = "ok" THEN "submitted"
                                           ELSE "failed"]
      /\ UNCHANGED <<authUsers, profiles, categories, books, orders, last,
                     order_items, cartVars, pages>>

\* ------------------------------------------------------------- Books page
\* the rows fetchBooks asks for: the category filter is applied only when
\* selectedCategory is not 'all' and is found in the categories the page
\* holds when the request is built
fetchBooks(page) ==
  LET category == IF page.selectedCategory # NullCat
                     /\ page.selectedCategory \in page.categories
                  THEN page.selectedCategory ELSE NullCat
  IN  {b \in DOMAIN books :
         BooksSelectUsing(NullUid)
         /\ (category = NullCat \/ books[b].category_id = category)}

\* useEffect(..., [searchQuery, selectedCategory, sortBy]): fetchCategories()
\* and fetchBooks() are sent, loading is set
BooksEffect(page) ==
  [page EXCEPT !.loading = TRUE, !.catFetch = TRUE,
               !.bookFetches = page.bookFetches \cup {fetchBooks(page)}]

\* the page is opened at /books or /books?category=X
BooksOpen ==
  \E c \in CatIds \cup {NullCat} :
    /\ ~booksPage.open
    /\ booksPage' = BooksEffect([ClosedBooks EXCEPT !.open = TRUE,
                                                   !.selectedCategory = c])
    /\ UNCHANGED <<authUsers, profiles, categories, books, orders, last,
                   order_items, reviews, tabs, cartVars, adminPage>>

\* the category select's onValueChange, or clearFilters: setSelectedCategory
BooksSelectCategory ==
  \E c \in CatIds \cup {NullCat} :
    /\ booksPage.open
    /\ c # booksPage.selectedCategory
    /\ booksPage' = BooksEffect([booksPage EXCEPT !.selectedCategory = c])
    /\ UNCHANGED <<authUsers, profiles, categories, books, orders, last,
                   order_items, reviews, tabs, cartVars, adminPage>>

\* the sort select's onValueChange: setSortBy
BooksSelectSort ==
  \E o \in SortOrders :
    /\ booksPage.open
    /\ o # booksPage.sortBy
    /\ booksPage' = BooksEffect([booksPage EXCEPT !.sortBy = o])
    /\ UNCHANGED <<authUsers, profiles, categories, books, orders, last,
                   order_items, reviews, tabs, cartVars, adminPage>>

\* the answer of fetchCategories arrives: setCategories(data)
fetchCategoriesReturn ==
  /\ booksPage.catFetch
  /\ booksPage' = [booksPage EXCEPT !.catFetch = FALSE,
                                    !.categories = DOMAIN categories]
  /\ UNCHANGED <<authUsers, profiles, categories, books, orders, last,
                 order_items, reviews, tabs, cartVars, adminPage>>

\* the answer of one fetchBooks arrives, in any order: setBooks(...),
\* setLoading(false)
fetchBooksReturn ==
  \E data \in booksPage.bookFetches :
    /\ booksPage' = [booksPage EXCEPT !.bookFetches = @ \ {data},
                                      !.books = data, !.loading = FALSE]
    /\ UNCHANGED <<authUsers, profiles, categories, books, orders, last,
                   order_items, reviews, tabs, cartVars, adminPage>>

\* ------------------------------------------------------------- Admin page
\* the Admin page is mounted: useEffect calls checkUserRole() if (user)
AdminOpen ==
  /\ ~adminPage.open
  /\ adminPage' = [ClosedAdmin EXCEPT !.open = TRUE, !.user = sessionUser,
                                      !.lookup = (sessionUser # NullUid)]
  /\ UNCHANGED <<authUsers, profiles, categories, books, orders, last,
                 order_items, reviews, tabs, cartVars, booksPage>>

\* the answer of checkUserRole's select('role').eq('id', user.id).single()
\* arrives: an error when no row came back, else setUserRole(data.role) and
\* fetchAllData() for an admin; setLoading(false) either way
checkUserRoleReturn ==
  LET u == adminPage.user
      found == u \in DOMAIN profiles /\ ProfilesSelectUsing(u, u, profiles[u])
  IN  /\ adminPage.lookup
      /\ adminPage' = [adminPage EXCEPT
                         !.lookup = FALSE,
                         !.loading = FALSE,
                         !.userRole = IF found THEN profiles[u].role
                                      ELSE NullRole,
                         !.fetched = found /\ profiles[u].role = "admin"]
      /\ UNCHANGED <<authUsers, profiles, categories, books, orders, last,
                     order_items, reviews, tabs, cartVars, booksPage>>

\* what the Admin page renders
AdminView ==
  IF ~adminPage.open THEN "none"
  ELSE IF adminPage.loading THEN "Loading"
  ELSE IF adminPage.user = NullUid \/ adminPage.userRole # "admin"
  THEN "Navigate"
  ELSE "dashboard"

\* the visitor signs in, signs out, or leaves the Admin page
SignInOut ==
  /\ ~adminPage.open
  /\ sessionUser' \in Callers(authUsers) \ {sessionUser}
  /\ UNCHANGED <<authUsers, profiles, categories, books, orders, last,
                 order_items, reviews, tabs, cart_items, adders, pages>>

AdminLeave ==
  /\ adminPage.open /\ ~adminPage.lookup
  /\ adminPage' = ClosedAdmin
  /\ UNCHANGED <<authUsers, profiles, categories, books, orders, last,
                 order_items, reviews, tabs, cartVars, booksPage>>

\* ------------------------------------------------------------ initial state
\* after the migrations: the seeded admin profile and its auth user, the
\* other tables as far as the model follows them empty
SeedProfiles == [i \in {AdminSeedId} |->
                  [role |-> "admin", is_blocked |-> FALSE, phone |-> "null"]]

EmptyTable == [i \in {} |-> 0]

\* neither page open
NoPages ==
  /\ booksPage = ClosedBooks
  /\ adminPage = ClosedAdmin

\* empty carts, no add-to-cart running
NoCart ==
  /\ cart_items = EmptyTable
  /\ adders = [t \in Tabs |-> IdleAdder]

\* no order items, no reviews, every review dialog closed, nobody signed in
\* to the browser
NoOthers ==
  /\ order_items = EmptyTable
  /\ reviews = EmptyTable
  /\ tabs = [t \in Tabs |-> ClosedTab]
  /\ NoCart
  /\ sessionUser = NullUid
  /\ NoPages

Init ==
  /\ authUsers = {AdminSeedId}
  /\ profiles = SeedProfiles
  /\ categories = EmptyTable
  /\ books = EmptyTable
  /\ orders = EmptyTable
  /\ last = NoRequest
  /\ NoOthers

\* the registry: sign-up and every statement on public.profiles
Next ==
  \/ SignUp
  \/ SelectProfile
  \/ InsertProfile
  \/ RestUpdateProfile
  \/ updateProfile
  \/ toggleUserBlock
  \/ DeleteProfile

Spec == Init /\ [][Next]_vars

\* the registry with the registration hook fired any number of times
NextHook ==
  \/ SignUp
  \/ RefireHook
  \/ SelectProfile
  \/ toggleUserBlock
  \/ DeleteProfile

SpecHook == Init /\ [][NextHook]_vars

\* The catalog and the orders are checked from every state of the registry:
\* any set of signed-up users that holds the seeded admin, each with or
\* without a profile row of any role (and, for the catalog, block flag)
RegistryStates(rows) ==
  {<<au, pr>> : au \in {a \in SUBSET Ids : AdminSeedId \in a},
                pr \in UNION {[d -> rows] : d \in SUBSET Ids}}

InitRegistry(rows) ==
  \E reg \in RegistryStates(rows) :
    /\ DOMAIN reg[2] \subseteq reg[1]
    /\ authUsers = reg[1]
    /\ profiles = reg[2]

InitAnyRegistry ==
  /\ InitRegistry({r \in ProfileRow : r.phone = "null"})
  /\ categories = EmptyTable
  /\ books = EmptyTable
  /\ orders = EmptyTable
  /\ last = NoRequest
  /\ NoOthers

NextCatalog ==
  \/ SelectCategory
  \/ InsertCategory
  \/ UpdateCategory
  \/ DeleteCategory
  \/ SelectBook
  \/ InsertBook
  \/ UpdateBook
  \/ DeleteBook

SpecCatalog == InitAnyRegistry /\ [][NextCatalog]_vars

NextOrders ==
  \/ SelectOrder
  \/ RestInsertOrder
  \/ handlePlaceOrder
  \/ RestUpdateOrder
  \/ updateOrderStatus
  \/ DeleteOrder

InitAnyRoles ==
  /\ InitRegistry({r \in ProfileRow : r.phone = "null" /\ ~r.is_blocked})
  /\ categories = EmptyTable
  /\ books = EmptyTable
  /\ orders = EmptyTable
  /\ last = NoRequest
  /\ NoOthers

SpecOrders == InitAnyRoles /\ [][NextOrders]_vars

\* the orders as the application's own pages drive them: checkout, the
\* admin page's 'Mark as Delivered' (from a listing that may be stale), and
\* the order listings
NextAppOrders ==
  \/ handlePlaceOrder
  \/ updateOrderStatus
  \/ SelectOrder

SpecAppOrders == InitAnyRoles /\ [][NextAppOrders]_vars

\* the catalog as the migration's sample rows leave it
SampleCategories == [c \in CatIds |-> [description |-> "novels"]]
SampleBooks == [b \in BookIds |-> [category_id |-> 1]]

\* any registry of unblocked rows, over the sample catalog
InitShop ==
  /\ InitRegistry({r \in ProfileRow : r.phone = "null" /\ ~r.is_blocked})
  /\ categories = SampleCategories
  /\ books = SampleBooks
  /\ orders = EmptyTable
  /\ last = NoRequest
  /\ NoOthers

\* orders placed at checkout, and every statement on public.order_items
NextOrderItems ==
  \/ handlePlaceOrder
  \/ handlePlaceOrderItems
  \/ SelectOrderItem
  \/ RestInsertOrderItem

SpecOrderItems == InitShop /\ [][NextOrderItems]_vars

\* every identity has signed up: the seeded admin and customers
AllSignedUp == [i \in Ids |-> IF i = AdminSeedId THEN SeedProfiles[i]
                                ELSE ProfileDefaults]

InitReviews ==
  /\ authUsers = Ids
  /\ profiles = AllSignedUp
  /\ categories = SampleCategories
  /\ books = SampleBooks
  /\ orders = EmptyTable
  /\ last = NoRequest
  /\ NoOthers

\* review dialogs running side by side, and direct statements on reviews
NextReviews ==
  \/ \E t \in Tabs : handleSubmitReview(t)
  \/ \E t \in Tabs : handleSubmitReviewInsert(t)
  \/ RestInsertReview
  \/ RestDeleteReview

SpecReviews == InitReviews /\ [][NextReviews]_vars

\* reviews written straight through the policy layer while orders are
\* placed and delivered
NextReviewPolicy ==
  \/ handlePlaceOrder
  \/ handlePlaceOrderItems
  \/ updateOrderStatus
  \/ RestInsertReview
  \/ RestDeleteReview

SpecReviewPolicy == InitReviews /\ [][NextReviewPolicy]_vars

\* one user signed in to the browser, every table but the catalog empty
InitCart ==
  /\ authUsers = Ids
  /\ profiles = AllSignedUp
  /\ categories = SampleCategories
  /\ books = SampleBooks
  /\ orders = EmptyTable
  /\ last = NoRequest
  /\ order_items = EmptyTable
  /\ reviews = EmptyTable
  /\ tabs = [t \in Tabs |-> ClosedTab]
  /\ NoCart
  /\ sessionUser \in authUsers
  /\ NoPages

\* add-to-cart buttons pressed in two tabs, and the book page's button
NextCart ==
  \/ \E t \in Tabs : handleAddToCart(t)
  \/ \E t \in Tabs : handleAddToCartUpdate(t)
  \/ \E t \in Tabs : handleAddToCartInsert(t)
  \/ addToCart

SpecCart == InitCart /\ [][NextCart]_vars

\* a catalog whose books are in a category or in none, nobody signed in
InitBooksPage ==
  /\ authUsers = Ids
  /\ profiles = AllSignedUp
  /\ categories = SampleCategories
  /\ books \in [BookIds -> BookRow]
  /\ orders = EmptyTable
  /\ last = NoRequest
  /\ NoOthers

NextBooksPage ==
  \/ BooksOpen
  \/ BooksSelectCategory
  \/ BooksSelectSort
  \/ fetchCategoriesReturn
  \/ fetchBooksReturn

SpecBooksPage == InitBooksPage /\ [][NextBooksPage]_vars

\* visits of the Admin page, from every state of the registry
NextAdminPage ==
  \/ SignInOut
  \/ AdminOpen
  \/ checkUserRoleReturn
  \/ AdminLeave

SpecAdminPage == InitAnyRegistry /\ [][NextAdminPage]_vars

\* checkout of a cart filled from the book page, while the catalog changes
NextCheckout ==
  \/ addToCart
  \/ handlePlaceOrder
  \/ handlePlaceOrderItems
  \/ handlePlaceOrderClear
  \/ DeleteBook

SpecCheckout == InitCart /\ [][NextCheckout]_vars

\* the statements no policy covers, sent while orders are placed
NextNoPolicy ==
  \/ handlePlaceOrder
  \/ handlePlaceOrderItems
  \/ RestInsertOrderItem
  \/ RestUpdateOrderItem
  \/ RestDeleteOrderItem
  \/ DeleteOrder
  \/ SelectOrder
  \/ SelectOrderItem

SpecNoPolicy == InitReviews /\ [][NextNoPolicy]_vars

\* blocking and unblocking from the admin page while orders are placed and
\* read, from every state of the registry
InitBlock ==
  /\ InitRegistry({r \in ProfileRow : r.phone = "null"})
  /\ categories = SampleCategories
  /\ books = SampleBooks
  /\ orders = EmptyTable
  /\ last = NoRequest
  /\ NoOthers

NextBlock ==
  \/ toggleUserBlock
  \/ handlePlaceOrder
  \/ SelectOrder

SpecBlock == InitBlock /\ [][NextBlock]_vars

\* ======================================================================
\* Properties
\* ======================================================================
\* "a registry row exists with id = caller and role = admin"
IsAdmin(pr, uid) == uid \in DOMAIN pr /\ pr[uid].role = "admin"

\* the statement took effect on the row it addressed
TookEffect(req) == req.result = "ok"

\* the policies turned the statement down: the row was filtered out (zero
\* rows, no error) or the new row was rejected
Denied(req) == req.result \in {"norows", "rls_error"}

CatalogWrite(req) ==
  req.tbl \in {"categories", "books"} /\ req.op \in {"insert", "update", "delete"}

\* C1: a create, update or delete on a category or a book is admitted by
\* the policies if and only if the caller's registry row exists and has role
\* admin; customers, anonymous callers and callers without a row are denied.
C1_CatalogWritesAdminOnly ==
  CatalogWrite(last) => (~Denied(last) <=> IsAdmin(profiles, last.caller))

\* C1 witness: an administrator's update of a category took effect
C1_Witness ==
  /\ last.tbl = "categories" /\ last.op = "update" /\ TookEffect(last)
  /\ IsAdmin(profiles, last.caller)
  /\ categories[last.row].description = "novels"

\* C2: a principal's role changes only by a statement whose caller is an
\* administrator; no statement of a non-admin caller (a principal's update of
\* its own row included) changes any principal's role.
C2_RoleChangesOnlyByAdmin ==
  [][\A q \in DOMAIN profiles \cap DOMAIN profiles' :
       profiles'[q].role # profiles[q].role => IsAdmin(profiles, last'.caller)]_vars

\* C3: an insert of, or an update to, Q's registry row by a caller who is
\* neither Q nor an administrator never takes effect, whether Q is blocked or
\* not.
C3_RegistryMutatedByOwnerOrAdmin ==
  [][(/\ last'.tbl = "profiles" /\ last'.op \in {"insert", "update"}
      /\ last'.caller # last'.row
      /\ ~IsAdmin(profiles, last'.caller)) => ~TookEffect(last')]_vars

\* C4: an anonymous caller's read of a category or a book is admitted, and
\* an anonymous caller's read of a registry row is denied whatever the row's
\* block flag.
C4_AnonymousReads ==
  (last.op = "select" /\ last.caller = NullUid) =>
    /\ last.tbl \in {"categories", "books"} => TookEffect(last)
    /\ last.tbl = "profiles" => Denied(last)

\* C5: a blocked non-admin caller's read of another principal's registry row
\* is denied, for every target row, blocked or not.
C5_BlockedReadsOthersDenied ==
  (/\ last.tbl = "profiles" /\ last.op = "select"
   /\ last.caller \in DOMAIN profiles
   /\ profiles[last.caller].is_blocked
   /\ profiles[last.caller].role # "admin"
   /\ last.row # last.caller) => Denied(last)

\* C6: a principal that has a registry row reads and updates its own row,
\* blocked or not: such a read or update always takes effect.
C6_OwnRowReadUpdate ==
  (/\ last.tbl = "profiles" /\ last.op \in {"select", "update"}
   /\ last.caller # NullUid /\ last.caller = last.row
   /\ last.row \in DOMAIN profiles) => TookEffect(last)

\* C6 witness: a blocked customer changed the phone of its own row
C6_Witness ==
  /\ last.via = "updateProfile" /\ TookEffect(last)
  /\ profiles[last.caller].is_blocked
  /\ profiles[last.caller].role = "customer"
  /\ profiles[last.caller].phone = "555"

\* C7: while P is blocked and not an administrator, no statement issued by P
\* changes P's block flag from true to false.
C7_BlockedCannotUnblockSelf ==
  [][\A p \in DOMAIN profiles \cap DOMAIN profiles' :
       (/\ profiles[p].is_blocked /\ profiles[p].role # "admin"
        /\ last'.caller = p) => profiles'[p].is_blocked]_vars

\* C8: for a caller whose role is admin when the statement runs, a read and
\* an update of any registry row take effect whether the row is blocked or
\* not, so an administrator can always clear a block flag.
C8_AdminOverride ==
  [][(/\ last'.tbl = "profiles" /\ last'.op \in {"select", "update"}
      /\ IsAdmin(profiles, last'.caller)
      /\ last'.row \in DOMAIN profiles) => TookEffect(last')]_vars

\* C8 witness: an administrator unblocked another principal's row through
\* toggleUserBlock
C8_Witness ==
  /\ last.via = "toggleUserBlock" /\ TookEffect(last)
  /\ IsAdmin(profiles, last.caller)
  /\ last.row # last.caller
  /\ ~profiles[last.row].is_blocked

\* C9: an insert into orders is admitted if and only if the new row's
\* user_id is the caller's identity; naming another identity is denied for
\* every caller, administrators and anonymous callers included.
C9_OrderInsertOwnOnly ==
  (last.tbl = "orders" /\ last.op = "insert") =>
    (~Denied(last) <=> (last.caller # NullUid /\ last.arg = last.caller))

\* C9 witness: the checkout of a customer stored an order the customer owns
C9_Witness ==
  /\ last.via = "handlePlaceOrder" /\ TookEffect(last)
  /\ ~IsAdmin(profiles, last.caller)
  /\ orders[last.row].user_id = last.caller

\* C10: a read of an order is admitted if and only if the caller owns the
\* order or the caller's role is admin.
C10_OrderReadOwnerOrAdmin ==
  (last.tbl = "orders" /\ last.op = "select") =>
    (TookEffect(last) <=>
       \/ (last.caller # NullUid /\ orders[last.row].user_id = last.caller)
       \/ IsAdmin(profiles, last.caller))

\* C10 witness: a customer's read of another principal's order is denied
C10_Witness ==
  /\ last.tbl = "orders" /\ last.op = "select" /\ Denied(last)
  /\ last.caller \in DOMAIN profiles
  /\ profiles[last.caller].role = "customer"
  /\ orders[last.row].user_id # last.caller

\* C12: an update of an order is admitted if and only if the caller's role
\* is admin; a customer is denied, also on an order the customer owns.
C12_OrderUpdateAdminOnly ==
  (last.tbl = "orders" /\ last.op = "update") =>
    (~Denied(last) <=> IsAdmin(profiles, last.caller))

\* C12 witness: an administrator who does not own the order moved it to
\* delivered from the admin page
C12_Witness ==
  /\ last.via = "updateOrderStatus" /\ TookEffect(last)
  /\ IsAdmin(profiles, last.caller)
  /\ orders[last.row].status = "delivered"
  /\ orders[last.row].user_id # last.caller

\* C13: the user_id of an order is the same after every step as before it,
\* whoever the caller is.
C13_OrderOwnerNeverChanges ==
  [][\A o \in DOMAIN orders \cap DOMAIN orders' :
       orders'[o].user_id = orders[o].user_id]_vars

\* C15: after an identity is created, the registry holds its row, with role
\* customer and is_blocked false: never no row, never an admin row.
C15_SignUpMakesCustomerRow ==
  (last.via = "signup" /\ TookEffect(last)) =>
    /\ last.row \in authUsers
    /\ last.row \in DOMAIN profiles
    /\ profiles[last.row].role = "customer"
    /\ ~profiles[last.row].is_blocked

\* C15 witness: a sign-up went through next to the seeded admin row
C15_Witness ==
  /\ last.via = "signup" /\ TookEffect(last)
  /\ last.row # AdminSeedId
  /\ DOMAIN profiles = {AdminSeedId, last.row}
  /\ profiles[AdminSeedId].role = "admin"

\* C16: no DELETE sent to public.profiles removes a row, whoever the caller
\* and whichever the row.
C16_RegistryDeleteDenied ==
  (last.tbl = "profiles" /\ last.op = "delete") => ~TookEffect(last)

\* C14: a firing of the registration hook for an identity that already has
\* a registry row raises no error, and after every firing the identity has
\* its row.
C14_HookIdempotent ==
  (last.via = "handle_new_user") =>
    (last.result = "ok" /\ last.row \in DOMAIN profiles)

\* C11: an insert of an order item is admitted if and only if the caller
\* owns the parent order it names (an administrator who does not own it is
\* denied); a read of an order item is admitted if and only if the caller
\* owns the parent order or the caller's role is admin.
C11_OrderItemsByParentOwner ==
  /\ (last.tbl = "order_items" /\ last.op = "insert") =>
       (~Denied(last) <=>
          /\ last.arg \in DOMAIN orders
          /\ last.caller # NullUid
          /\ orders[last.arg].user_id = last.caller)
  /\ (last.tbl = "order_items" /\ last.op = "select") =>
       (TookEffect(last) <=>
          \/ (last.caller # NullUid
              /\ orders[last.arg].user_id = last.caller)
          \/ IsAdmin(profiles, last.caller))

\* C11 witness: an administrator's insert of an item into a customer's
\* order is denied, the order holding an item its owner put there
C11_Witness ==
  /\ last.tbl = "order_items" /\ last.op = "insert" /\ Denied(last)
  /\ IsAdmin(profiles, last.caller)
  /\ last.arg \in DOMAIN orders
  /\ orders[last.arg].user_id # last.caller
  /\ \E i \in DOMAIN order_items : order_items[i].order_id = last.arg

\* C20: for every registry state and every caller, each administrator
\* predicate of the policies (registry read-all, category and book
\* management, order read-all, order update, order-item read-all, and the
\* administrator branch of the block predicate) passes exactly when a
\* registry row exists with id = caller and role = admin.
C20_OneRoleResolution ==
  \A uid \in Callers(Ids) :
    LET inline == IsAdmin(profiles, uid)
    IN  /\ Passes(AdminsCanViewAllProfiles(uid)) <=> inline
        /\ Passes(AdminsCanManageCategories(uid)) <=> inline
        /\ Passes(AdminsCanManageBooks(uid)) <=> inline
        /\ Passes(AdminsCanViewAllOrders(uid)) <=> inline
        /\ Passes(AdminsCanUpdateOrders(uid)) <=> inline
        /\ Passes(AdminsCanViewAllOrderItems(uid)) <=> inline
        /\ \A id \in DOMAIN profiles :
             (id # uid /\ profiles[id].is_blocked) =>
               (Passes(BlockedUsersCannotAccessData(uid, id, profiles[id]))
                  <=> inline)

\* C20 witness: an administrator's catalog write went through in a registry
\* that also holds a blocked customer, who passes none of the predicates
C20_Witness ==
  /\ last.tbl = "categories" /\ last.op = "update" /\ TookEffect(last)
  /\ IsAdmin(profiles, last.caller)
  /\ \E c \in DOMAIN profiles :
       /\ profiles[c].role = "customer" /\ profiles[c].is_blocked
       /\ ~Passes(AdminsCanManageCategories(c))
       /\ ~Passes(BlockedUsersCannotAccessData(NullUid, c, profiles[c]))

\* C19: every denied write comes back as an authorization error, never as
\* an update of zero rows, and the admin page's handler then takes its error
\* branch.
C19_DeniedWriteIsError ==
  (last.op \in {"insert", "update", "delete"} /\ Denied(last)) =>
    (last.result = "rls_error" /\ toast(last) = "error")

\* C18: after every step the reviews hold at most one row per (user, book);
\* a submission whose insert finds the pair taken, its check having seen
\* none, changes nothing and reports failure, and any other insert of the
\* dialog stores the review and reports success.
C18_OneReviewPerUserAndBook ==
  [][/\ \A i, j \in DOMAIN reviews' :
          (reviews'[i].user_id = reviews'[j].user_id
           /\ reviews'[i].book_id = reviews'[j].book_id) => i = j
     /\ \A t \in Tabs :
          (tabs[t].pc = "insert" /\ tabs'[t].pc = "idle") =>
            IF \E r \in DOMAIN reviews :
                 /\ reviews[r].user_id = tabs[t].user
                 /\ reviews[r].book_id = tabs[t].book
            THEN reviews' = reviews /\ tabs'[t].toast = "failed"
            ELSE /\ tabs'[t].toast = "submitted"
                 /\ \E r \in DOMAIN reviews' \ DOMAIN reviews :
                      /\ reviews'[r].user_id = tabs[t].user
                      /\ reviews'[r].book_id = tabs[t].book]_vars

\* C18 witness: one user submitted the same book from two dialogs at once;
\* one was stored, the other failed, and one review is there
C18_Witness ==
  /\ tabs[1].user = tabs[2].user /\ tabs[1].book = tabs[2].book
  /\ tabs[1].toast = "submitted" /\ tabs[2].toast = "failed"
  /\ Cardinality({r \in DOMAIN reviews :
                    /\ reviews[r].user_id = tabs[1].user
                    /\ reviews[r].book_id = tabs[1].book}) = 1

\* what the policies of every table but the registry answer to caller a,
\* for each command and each row
Admits(a) ==
  [categories |-> <<CategoriesSelectUsing(a), CategoriesWriteUsing(a)>>,
   books |-> <<BooksSelectUsing(a), BooksWriteUsing(a)>>,
   cart_items |-> [r \in CartItemRow |-> CartItemsUsing(a, r)],
   orders |-> [r \in OrderRow |->
                <<OrdersSelectUsing(a, r), OrdersInsertCheck(a, r),
                  OrdersUpdateUsing(a), OrdersDeleteUsing(a, r)>>],
   order_items |-> [r \in OrderItemRow |->
                     <<OrderItemsSelectUsing(a, r),
                       OrderItemsInsertCheck(a, r)>>],
   reviews |-> [r \in ReviewRow |->
                 <<ReviewsSelectUsing(a, r), ReviewsWriteUsing(a, r)>>]]

\* C17: a step that flips the is_blocked flag of principal A and nothing
\* else leaves every admit/deny answer to A on categories, books, cart
\* items, orders, order items and reviews as it was.
C17_BlockGateOnlyOnRegistry ==
  [][\A a \in DOMAIN profiles :
       (profiles' = [profiles EXCEPT ![a].is_blocked = ~profiles[a].is_blocked]
        /\ orders' = orders)
         => Admits(a)' = Admits(a)]_vars

\* C17 witness: a customer who owns an order has just been blocked and is
\* still let through to the order
C17_Witness ==
  /\ last.via = "toggleUserBlock" /\ TookEffect(last)
  /\ last.row \in DOMAIN profiles
  /\ profiles[last.row].is_blocked
  /\ profiles[last.row].role = "customer"
  /\ \E o \in DOMAIN orders :
       /\ orders[o].user_id = last.row
       /\ OrdersSelectUsing(last.row, orders[o])

\* C21: a delete of an order, an update of an order item and a delete of
\* an order item are admitted for no caller, administrators included, and
\* every order item stays as it was inserted.
C21_NoPolicyMeansDenied ==
  [][/\ ((last'.tbl = "orders" /\ last'.op = "delete")
         \/ (last'.tbl = "order_items" /\ last'.op \in {"update", "delete"}))
          => ~TookEffect(last')
     /\ \A i \in DOMAIN order_items :
          i \in DOMAIN order_items' /\ order_items'[i] = order_items[i]
     /\ DOMAIN orders \subseteq DOMAIN orders']_vars

\* C21 witness: an administrator's delete of an order item came back with
\* no row deleted
C21_Witness ==
  /\ last.tbl = "order_items" /\ last.op = "delete" /\ Denied(last)
  /\ IsAdmin(profiles, last.caller)
  /\ last.row \in DOMAIN order_items

\* C22: in every state, for every administrator, every order and every
\* status t, the update of the order's status to t is admitted and takes
\* effect, whatever the order's current status.
C22_AdminAnyStatusChange ==
  \A uid \in Callers(authUsers), id \in DOMAIN orders, t \in order_status :
    IsAdmin(profiles, uid) =>
      UpdateOrderResult(uid, id, [orders[id] EXCEPT !.status = t]) = "ok"

\* C22 witness: an administrator has put another identity's order back to
\* pending
C22_Witness ==
  /\ last.via = "rest" /\ last.tbl = "orders" /\ last.op = "update"
  /\ TookEffect(last)
  /\ IsAdmin(profiles, last.caller)
  /\ orders[last.row].status = "pending"
  /\ orders[last.row].user_id # last.caller

\* C23: the row stored by an admitted insert into orders has status
\* pending or confirmed.
C23_OrderStartsPendingOrConfirmed ==
  (last.tbl = "orders" /\ last.op = "insert" /\ TookEffect(last)) =>
    orders[last.row].status \in {"pending", "confirmed"}

\* C24: a step of Profile.updateProfile addresses the row of the signed-in
\* user, keeps the set of registry rows, keeps role and is_blocked of every
\* row, and leaves every other principal's row as it was.
C24_UpdateProfileFrame ==
  [][last'.via = "updateProfile" =>
       /\ last'.row = last'.caller
       /\ authUsers' = authUsers
       /\ DOMAIN profiles' = DOMAIN profiles
       /\ \A i \in DOMAIN profiles :
            /\ profiles'[i].role = profiles[i].role
            /\ profiles'[i].is_blocked = profiles[i].is_blocked
            /\ i # last'.caller => profiles'[i] = profiles[i]]_vars

\* C24 witness: a blocked customer has changed the phone of its own row,
\* next to the administrator's row
C24_Witness ==
  /\ last.via = "updateProfile" /\ TookEffect(last)
  /\ profiles[last.caller].phone = "555"
  /\ profiles[last.caller].role = "customer"
  /\ profiles[last.caller].is_blocked
  /\ \E i \in DOMAIN profiles : i # last.caller /\ profiles[i].role = "admin"

\* C25: under the application's own operations every order is confirmed or
\* delivered after every step, the only change of status is confirmed to
\* delivered, and a delivered order stays delivered.
C25_AppOrdersConfirmedThenDelivered ==
  [][/\ \A o \in DOMAIN orders' :
          orders'[o].status \in {"confirmed", "delivered"}
     /\ \A o \in DOMAIN orders :
          /\ o \in DOMAIN orders'
          /\ orders[o].status = "delivered" => orders'[o].status = "delivered"
          /\ orders'[o].status # orders[o].status =>
               (orders[o].status = "confirmed"
                /\ orders'[o].status = "delivered")]_vars

\* C25 witness: with two administrators signed up, one of them has marked
\* an order placed at checkout as delivered
C25_Witness ==
  /\ last.via = "updateOrderStatus" /\ TookEffect(last)
  /\ orders[last.row].status = "delivered"
  /\ \E a \in authUsers : a # last.caller /\ IsAdmin(profiles, a)

\* C27: a step in which an add-to-cart reports success leaves the quantity
\* of that (user, book) pair exactly 1 above what it was before the step.
C27_AddToCartAddsOne ==
  [][/\ \A t \in Tabs :
          (adders[t].pc # "idle" /\ adders'[t].pc = "idle"
           /\ adders'[t].toast = "success") =>
            LET key == [user_id |-> sessionUser, book_id |-> adders[t].book]
            IN  Quantity(cart_items', key) = Quantity(cart_items, key) + 1
     /\ (last'.via = "addToCart" /\ adders' = adders /\ TookEffect(last')) =>
          LET key == [user_id |-> sessionUser, book_id |-> last'.arg]
          IN  Quantity(cart_items', key) = Quantity(cart_items, key) + 1]_vars

\* C26: when handlePlaceOrder has finished with success, the order, an
\* item of it and an empty cart of the caller are there; when it has
\* finished with a failure, the order it was placing is not there.
C26_CheckoutAllOrNothing ==
  /\ (last.via = "handlePlaceOrder" /\ last.tbl = "cart_items"
      /\ TookEffect(last)) =>
       /\ last.arg \in DOMAIN orders
       /\ \E i \in DOMAIN order_items : order_items[i].order_id = last.arg
       /\ \A k \in DOMAIN cart_items : k.user_id # last.caller
  /\ (last.via = "handlePlaceOrder" /\ last.tbl = "orders"
      /\ ~TookEffect(last)) => last.row \notin DOMAIN orders
  /\ (last.via = "handlePlaceOrder" /\ last.tbl = "order_items"
      /\ ~TookEffect(last)) => last.arg \notin DOMAIN orders

\* C28: when a category is selected on the Books page, loading has
\* finished and no answer is outstanding, every displayed book is of the
\* selected category.
C28_DisplayedBooksOfSelectedCategory ==
  (/\ booksPage.open
   /\ booksPage.selectedCategory # NullCat
   /\ ~booksPage.loading
   /\ ~booksPage.catFetch
   /\ booksPage.bookFetches = {}) =>
    \A b \in booksPage.books :
      books[b].category_id = booksPage.selectedCategory

\* C29: an Admin page that shows Loading has its role lookup in flight (so
\* it does not stay in Loading for ever); the dashboard is shown, and the
\* admin data is fetched, only after the lookup returned admin for the
\* visitor.
C29_AdminPageGuard ==
  /\ AdminView = "Loading" => adminPage.lookup
  /\ AdminView = "dashboard" => adminPage.userRole = "admin"
  /\ adminPage.fetched => adminPage.userRole = "admin"

\* C30: a step that creates a review row for (P, K) is taken only when P
\* owns a delivered order that has an order item for K.
C30_ReviewOnlyAfterDelivery ==
  [][\A r \in DOMAIN reviews' \ DOMAIN reviews :
       \E o \in DOMAIN orders :
         /\ orders[o].user_id = reviews'[r].user_id
         /\ orders[o].status = "delivered"
         /\ \E i \in DOMAIN order_items :
              /\ order_items[i].order_id = o
              /\ order_items[i].book_id = reviews'[r].book_id]_vars

====
